---- MODULE Spec2Model ----
(***************************************************************************)
(* Model of the sign-language model hook (src/src/hooks/                   *)
(* useSignLanguageModel.js, first definition of the hook, lines 1-967) and *)
(* of the camera screen's frame loop that drives it                        *)
(* (src/src/screens/CameraScreen.backup.js, processVideoFrame).            *)
(*                                                                         *)
(* Three state machines share the module:                                  *)
(*   SpecLoad   the model acquisition cascade (loadModel and               *)
(*              downloadAndExtractModelZip), one step per await;           *)
(*   SpecFrame  the frame buffer, the throttled predictor and the          *)
(*              no-hands reset of the camera screen;                       *)
(*   SpecAsm    the weight assembly of createZipIOHandler.load, one step   *)
(*              per completed asynchronous file read.                      *)
(*                                                                         *)
(* Conventions.  A JavaScript null is the empty sequence Null and a        *)
(* non-null value v is <<v>>.  Probabilities are hundredths (0.7 is 70).   *)
(* A frame is identified by its ingestion number.  React state read by a   *)
(* handler is the value committed before the handler ran (the unprimed     *)
(* variable); a ref (bufferRef, lastPredictionTimeRef, zipCacheRef) is     *)
(* read at its current value.                                              *)
(***************************************************************************)
EXTENDS Integers, Sequences, FiniteSets, TLC

Null == <<>>

(***************************************************************************)
(* Program constants                                                       *)
(***************************************************************************)
FRAME_BUFFER_SIZE == 30
CONFIDENCE_THRESHOLD == 70
THROTTLE_MS == 200
NO_HANDS_RESET_FRAMES == 30
USE_MOCK_MODEL == FALSE

(***************************************************************************)
(* Bounds of the model                                                     *)
(***************************************************************************)
MaxFrames == 33
MaxNoHands == 32
MaxPending == 2
MaxTime == 500
TickMs == 100

\* The label list, cut to its first two entries (DEFAULT_CLASS_LABELS).
classLabels == <<"Hello", "Thank you">>

\* Outputs the inference can resolve to (hundredths), one per class.
PredictionArrays ==
  { <<>>, <<0, 0>>, <<69, 30>>, <<30, 70>>, <<95, 5>>, <<10, 20, 80>> }

VARIABLES
  \* ---- React state of the hook
  model, isLoading, error, prediction, isBufferFull,
  \* ---- refs of the hook
  bufferRef, lastPredictionTimeRef,
  \* ---- camera screen state
  noHandsFrameCount,
  \* ---- environment and observation of the predictor
  now,          \* last value read from performance.now()
  pending,      \* inferences started whose predictions.data() has not resolved
  nextFrame,    \* number of the next frame the hand tracker delivers
  ingested,     \* frames ingested since the buffer was last emptied
  calls,        \* hook entry points entered by the last step
  ingestRet,    \* value returned by the last processHandLandmarks
  predictRet,   \* value the last finished runPrediction resolved to
  lastArray,    \* output of the last resolved inference
  runStartedFull, \* the buffer was full when the current no-hands run began
  \* ---- React state and refs written by loadModel
  modelLoadingStage, downloadProgress, extractionProgress, zipCacheRef,
  \* ---- locals of loadModel and downloadAndExtractModelZip
  pc,               \* the await at which loadModel is suspended
  loadedModel, modelLoadSuccess, modelExists, weightsExist,
  zipContents,      \* the archive downloadAndExtractModelZip returned
  zipData,          \* the bytes being extracted
  retries,          \* retries argument of the running retryWithBackoff
  \* ---- browser storage
  session,          \* sessionStorage: Null or << [data, fresh, version] >>
  idbCache,         \* indexeddb://CACHE_KEY
  lsCache,          \* localstorage://CACHE_KEY
  \* ---- observation of the cascade
  attempts,         \* sources started, in order
  failedSrc,        \* sources whose failure was caught
  unavailable,      \* sources found absent when their turn came
  zipSource,        \* the source zipContents came from
  thrown,           \* an exception reached the outer catch of loadModel
  mockFailed,       \* createMockModel failed inside the outer catch
  saveFailed,       \* a loadedModel.save(...) rejected
  saves,            \* the save calls made: [store, model, source, ok]
  fetchCount,       \* fetches of the archive issued so far
  waits,            \* the delays retryWithBackoff slept, in order
  stuck,            \* the source whose promise never settles, or "none"
  warmup,           \* "none", or how the warm-up inference ended
  validation,       \* "none", or how the output-size validation ended
  \* ---- the debounced extraction progress
  debounceTimer,    \* pending timeouts: << extraction, percent to deliver >>
  reportedPercent,  \* last percent the running extraction reported
  \* ---- createZipIOHandler(zipContents).load, from the weights manifest on
  asmFiles,         \* zipContents.files: entry key -> bytes
  asmModelDir,      \* modelDir, the directory of the descriptor
  asmManifest,      \* modelJSON.weightsManifest: groups of paths
  asmResolved,      \* the entry key each path resolved to
  asmPendingReads,  \* weightFile.async('arraybuffer') calls not yet settled
  asmBuffers,       \* per group, the result array of the inner Promise.all
  asmDone,          \* per group, how many of its reads have settled
  asmGroupData,     \* the result array of the outer Promise.all
  asmWeightData,    \* combinedWeightData
  asmCompletion,    \* reads in the order they settled
  asmError,         \* the Error the load rejected with
  asmConsole,       \* what console.error('Attempted paths:', ...) was given
  asmPc,
  \* ---- the effect's cleanup
  unmounted,        \* the cleanup of the loading effect has run
  disposed,         \* the model objects dispose() was called on
  \* ---- the hand tracker's last result
  lmHands,          \* landmarkerResult.landmarks: per hand, its landmark count
  \* ---- clearOldCacheVersions and the stores it works on
  lsMetadata,       \* versions with a '<key>-metadata' item in localStorage
  idbModels,        \* versions with a model saved under indexeddb://<key>
  lsModels,         \* versions with a model saved under localstorage://<key>
  purgeCurrent,     \* the currentKey argument
  purgeQueue,       \* oldVersions not yet processed by the for-of loop
  purgeFailed,      \* << store, version >> removals that threw
  purgePc,
  \* ---- ModelStorageManager.clearLocalStorage
  lsItems,          \* the keys of localStorage, in the order of key(i)
  clearMessage      \* Null, or the message clearLocalStorage showed

frameVars == << prediction, isBufferFull, bufferRef, lastPredictionTimeRef,
                noHandsFrameCount, now, pending, nextFrame, ingested, calls,
                ingestRet, predictRet, lastArray, runStartedFull >>

hookVars == << model, isLoading, error >>

loadVars == << modelLoadingStage, downloadProgress, extractionProgress,
               zipCacheRef, pc, loadedModel, modelLoadSuccess, modelExists,
               weightsExist, zipContents, zipData, retries, session, idbCache,
               lsCache, attempts, failedSrc, unavailable, zipSource, thrown,
               mockFailed, saveFailed, fetchCount, waits, stuck, debounceTimer,
               reportedPercent, warmup, validation, saves >>

asmVars == << asmFiles, asmModelDir, asmManifest, asmResolved, asmPendingReads,
              asmBuffers, asmDone, asmGroupData, asmWeightData, asmCompletion,
              asmError, asmConsole, asmPc >>

lifeVars == << unmounted, disposed >>

purgeVars == << lsMetadata, idbModels, lsModels, purgeCurrent, purgeQueue,
                purgeFailed, purgePc >>

clearVars == << lsItems, clearMessage >>

utilVars == << lifeVars, lmHands, purgeVars, clearVars >>

vars == << hookVars, frameVars, loadVars, asmVars, utilVars >>

(***************************************************************************)
(* Model acquisition cascade: loadModel, downloadAndExtractModelZip        *)
(*                                                                         *)
(* A model object is "real" (a loaded LayersModel), "mock" (the model of   *)
(* createMockModel) or "nopredict" (an object without a predict function,  *)
(* the case the final check of loadModel guards against); "none" is null.  *)
(* An archive is known by what the loader can find out about it: "good"    *)
(* (descriptor present, loads), "unloadable" (descriptor present, the      *)
(* IOHandler or tf.loadLayersModel fails), "nodescriptor" (no entry        *)
(* contains 'model.json'); bytes that JSZip rejects are "corrupt".         *)
(***************************************************************************)
HasPredict_Any(m) == TRUE

\* typeof m.predict === 'function'
HasPredict(m) == m \in {"real", "mock"}

ArchiveKinds == {"good", "unloadable", "misnamed", "nodescriptor"}

\* The entry names of an archive of each kind; a name is the sequence of
\* the pieces it is written from, so 'model.json.bak' is
\* << "model.json", ".bak" >>.  A "misnamed" archive mentions the
\* descriptor's name only inside a longer entry name.
ArchiveEntries(kind) ==
  CASE kind = "good" -> { << "model.json" >>, << "group1-shard1of1.bin" >> }
    [] kind = "unloadable" -> { << "model/", "model.json" >> }
    [] kind = "misnamed" ->
         { << "model.json", ".bak" >>, << "group1-shard1of1.bin" >> }
    [] OTHER -> { << "readme.txt" >> }

\* file.includes('model.json')
Includes(name, piece) == \E i \in 1..Len(name) : name[i] = piece

\* name.endsWith('model.json')
EndsWith(name, piece) == Len(name) > 0 /\ name[Len(name)] = piece

\* the check of the extractor (lines 233-237, 339-345)
ExtractorAccepts(kind) ==
  \E file \in ArchiveEntries(kind) : Includes(file, "model.json")

\* the lookup of the IOHandler (lines 368-374)
DescriptorLocated(kind) ==
  \E name \in ArchiveEntries(kind) : EndsWith(name, "model.json")

\* what tf.loadLayersModel can resolve to, or "fail" when it rejects
LoadOutcomes == {"real", "nopredict", "fail"}

\* a cache tier holds nothing, or a model saved by an earlier page load
CacheOutcomes(cache) == IF cache = "none" THEN {"fail"} ELSE LoadOutcomes

\* the exposed isMockModel of the hook's return value
IsMockModel == USE_MOCK_MODEL \/ (prediction # Null /\ prediction[1].isMock)

\* MODEL_URL.CACHE_KEY, and the key of an earlier release
CACHE_KEY == "sign-language-model-v5"

CacheKeys == { CACHE_KEY, "sign-language-model-v4" }

GetModelDataFromSession_AnyVersion(store) ==
  IF store # Null /\ store[1].fresh /\ store[1].data # "undecodable"
  THEN << store[1].data >> ELSE Null

\* getModelDataFromSession (lines 160-184): the items are looked up under
\* names that begin with CACHE_KEY, so a blob stored under another key is
\* not found; the blob must be younger than 10 minutes; a payload atob
\* rejects is caught and null returned.
GetModelDataFromSession(store) ==
  IF /\ store # Null
     /\ store[1].version = CACHE_KEY
     /\ store[1].fresh
     /\ store[1].data # "undecodable"
  THEN << store[1].data >> ELSE Null

\* retryWithBackoff is called with retries = 3
DOWNLOAD_RETRIES == 3

loadObsIdle ==
  /\ warmup = "none"
  /\ validation = "none"
  /\ saveFailed = FALSE
  /\ saves = << >>
  /\ fetchCount = 0
  /\ waits = << >>
  /\ debounceTimer = {}
  /\ reportedPercent = 0

asmIdle ==
  /\ asmFiles = << >>
  /\ asmModelDir = << >>
  /\ asmManifest = << >>
  /\ asmResolved = << >>
  /\ asmPendingReads = {}
  /\ asmBuffers = << >>
  /\ asmDone = << >>
  /\ asmGroupData = << >>
  /\ asmWeightData = Null
  /\ asmCompletion = << >>
  /\ asmError = Null
  /\ asmConsole = Null
  /\ asmPc = "idle"

purgeIdle ==
  /\ lsMetadata = {}
  /\ idbModels = {}
  /\ lsModels = {}
  /\ purgeCurrent = "none"
  /\ purgeQueue = << >>
  /\ purgeFailed = {}
  /\ purgePc = "idle"

lifeIdle ==
  /\ unmounted = FALSE
  /\ disposed = {}
  /\ lmHands = << >>

clearIdle ==
  /\ lsItems = << >>
  /\ clearMessage = Null

utilIdle ==
  /\ lifeIdle
  /\ purgeIdle
  /\ clearIdle

frameIdle ==
  /\ prediction = Null
  /\ isBufferFull = FALSE
  /\ bufferRef = << >>
  /\ lastPredictionTimeRef = 0
  /\ noHandsFrameCount = 0
  /\ now = 0
  /\ pending = 0
  /\ nextFrame = 1
  /\ ingested = << >>
  /\ calls = {}
  /\ ingestRet = FALSE
  /\ predictRet = Null
  /\ lastArray = Null
  /\ runStartedFull = FALSE

\* State after the hook is constructed, before the effect runs loadModel.
\* The browser's stores hold whatever earlier page loads left in them.
LoadInitial(hangs) ==
  /\ stuck = hangs
  /\ loadObsIdle
  /\ model = "none"
  /\ isLoading = TRUE
  /\ error = Null
  /\ modelLoadingStage = "initializing"
  /\ downloadProgress = 0
  /\ extractionProgress = 0
  /\ zipCacheRef = Null
  /\ pc = "start"
  /\ loadedModel = "none"
  /\ modelLoadSuccess = FALSE
  /\ modelExists = FALSE
  /\ weightsExist = FALSE
  /\ zipContents = Null
  /\ zipData = Null
  /\ retries = 0
  /\ session \in {Null} \cup
        { << [data |-> d, fresh |-> f, version |-> v] >> :
            d \in ArchiveKinds \cup {"corrupt", "undecodable"},
            f \in BOOLEAN, v \in CacheKeys }
  /\ idbCache \in {"none", "real"}
  /\ lsCache \in {"none", "real"}
  /\ attempts = << >>
  /\ failedSrc = {}
  /\ unavailable = {}
  /\ zipSource = "none"
  /\ thrown = FALSE
  /\ mockFailed = FALSE
  /\ frameIdle
  /\ asmIdle
  /\ utilIdle

\* one acquisition in which every promise settles
InitLoad == LoadInitial("none")

obsVars == << saveFailed, fetchCount, waits, stuck, saves >>
timerVars == << debounceTimer, reportedPercent >>
probeVars == << warmup, validation >>
cascadeLocals == << loadedModel, modelLoadSuccess, modelExists, weightsExist,
                    zipContents, zipData, retries, zipSource >>
progressVars == << downloadProgress, extractionProgress >>
storeVars == << session, idbCache, lsCache >>
logVars == << attempts, failedSrc, unavailable >>

\* The continuation after an await on the given source runs only if the
\* promise settles; no await of loadModel is raced against a timer.
Settles(src) == stuck # src

EmergencyModel_KeepCurrent(mockCreated, current) == current

\* the model state after the catch handler: setModel(mockModel) when
\* createMockModel returned a model with predict (lines 735-738), otherwise
\* no setModel call
EmergencyModel(mockCreated, current) ==
  IF mockCreated THEN "mock" ELSE current

\* The outer catch and finally of loadModel (lines 726-750).
CatchAndFinally ==
  /\ thrown' = TRUE
  /\ modelLoadingStage' = "error"
  /\ \E mockCreated \in BOOLEAN :
       /\ model' = EmergencyModel(mockCreated, model)
       /\ IF mockCreated
          THEN /\ error' = << "Using mock model for demonstration purposes" >>
               /\ mockFailed' = FALSE
          ELSE /\ error' = << "Complete failure" >>
               /\ mockFailed' = TRUE
  /\ isLoading' = FALSE
  /\ pc' = "done"

\* setIsLoading(true); setModelLoadingStage('initializing'); await tf.ready()
LoadStart ==
  /\ pc = "start"
  /\ isLoading' = TRUE
  /\ modelLoadingStage' = "initializing"
  /\ pc' = "ready"
  /\ UNCHANGED << model, error, frameVars, asmVars, utilVars, probeVars, obsVars, timerVars, progressVars, zipCacheRef,
                  cascadeLocals, storeVars, logVars, thrown, mockFailed >>

\* tf.ready() settles; the two checkModelFile probes and the backend setup.
LoadReady ==
  /\ pc = "ready"
  /\ \E ready \in BOOLEAN :
       IF ready
       THEN /\ \E me \in BOOLEAN, we \in BOOLEAN :
                 /\ modelExists' = me
                 /\ weightsExist' = we
            /\ pc' = "local"
            /\ UNCHANGED << hookVars, modelLoadingStage, thrown, mockFailed >>
       ELSE /\ CatchAndFinally
            /\ UNCHANGED << modelExists, weightsExist >>
  /\ UNCHANGED << frameVars, asmVars, utilVars, probeVars, obsVars, timerVars, progressVars, zipCacheRef, loadedModel,
                  modelLoadSuccess, zipContents, zipData, retries, zipSource,
                  storeVars, logVars >>

\* 1. local bundled model (lines 526-537)
LoadLocal ==
  /\ pc = "local"
  /\ (~modelLoadSuccess /\ modelExists /\ weightsExist) => Settles("local")
  /\ IF ~modelLoadSuccess /\ modelExists /\ weightsExist
     THEN /\ modelLoadingStage' = "loading-local"
          /\ attempts' = Append(attempts, "local")
          /\ \E r \in LoadOutcomes :
               IF r = "fail"
               THEN /\ failedSrc' = failedSrc \cup {"local"}
                    /\ UNCHANGED << loadedModel, modelLoadSuccess >>
               ELSE /\ loadedModel' = r
                    /\ modelLoadSuccess' = TRUE
                    /\ UNCHANGED failedSrc
          /\ UNCHANGED unavailable
     ELSE /\ unavailable' = unavailable \cup {"local"}
          /\ UNCHANGED << modelLoadingStage, attempts, failedSrc, loadedModel,
                          modelLoadSuccess >>
  /\ pc' = "indexeddb"
  /\ UNCHANGED << hookVars, frameVars, asmVars, utilVars, probeVars, obsVars, timerVars, progressVars, zipCacheRef, modelExists,
                  weightsExist, zipContents, zipData, retries, zipSource,
                  storeVars, thrown, mockFailed >>

\* 2. IndexedDB tier of the persistent cache (lines 540-551)
LoadIndexedDB ==
  /\ pc = "indexeddb"
  /\ ~modelLoadSuccess => Settles("indexeddb")
  /\ IF ~modelLoadSuccess
     THEN /\ modelLoadingStage' = "loading-from-cache"
          /\ attempts' = Append(attempts, "indexeddb")
          /\ \E r \in CacheOutcomes(idbCache) :
               IF r = "fail"
               THEN /\ failedSrc' = failedSrc \cup {"indexeddb"}
                    /\ UNCHANGED << loadedModel, modelLoadSuccess >>
               ELSE /\ loadedModel' = r
                    /\ modelLoadSuccess' = TRUE
                    /\ UNCHANGED failedSrc
     ELSE UNCHANGED << modelLoadingStage, attempts, failedSrc, loadedModel,
                       modelLoadSuccess >>
  /\ pc' = "localstorage"
  /\ UNCHANGED << hookVars, frameVars, asmVars, utilVars, probeVars, obsVars, timerVars, progressVars, zipCacheRef, modelExists,
                  weightsExist, zipContents, zipData, retries, zipSource,
                  storeVars, unavailable, thrown, mockFailed >>

\* 3. localStorage tier of the persistent cache (lines 554-563)
LoadLocalStorage ==
  /\ pc = "localstorage"
  /\ ~modelLoadSuccess => Settles("localstorage")
  /\ IF ~modelLoadSuccess
     THEN /\ attempts' = Append(attempts, "localstorage")
          /\ \E r \in CacheOutcomes(lsCache) :
               IF r = "fail"
               THEN /\ failedSrc' = failedSrc \cup {"localstorage"}
                    /\ UNCHANGED << loadedModel, modelLoadSuccess >>
               ELSE /\ loadedModel' = r
                    /\ modelLoadSuccess' = TRUE
                    /\ UNCHANGED failedSrc
     ELSE UNCHANGED << attempts, failedSrc, loadedModel, modelLoadSuccess >>
  /\ pc' = "zip"
  /\ UNCHANGED << hookVars, frameVars, asmVars, utilVars, probeVars, obsVars, timerVars, modelLoadingStage, progressVars,
                  zipCacheRef, modelExists, weightsExist, zipContents, zipData,
                  retries, zipSource, storeVars, unavailable, thrown,
                  mockFailed >>

\* The archive is given up: the zipError handler of loadModel (line 588)
\* leaves the cascade at the direct URL.
ZipGivenUp(src) ==
  /\ failedSrc' = failedSrc \cup {src}
  /\ pc' = "direct"

\* 4. ZIP fallback, downloadAndExtractModelZip up to its first await
\* (lines 566-569, 191-219 and 248).
LoadZip ==
  /\ pc = "zip"
  /\ IF modelLoadSuccess
     THEN /\ pc' = "direct"
          /\ UNCHANGED << modelLoadingStage, zipContents, zipData, retries,
                          zipSource, downloadProgress, logVars >>
     ELSE /\ IF zipCacheRef # Null
             THEN /\ modelLoadingStage' = "downloading"
                  /\ zipContents' = zipCacheRef
                  /\ zipSource' = "memory"
                  /\ attempts' = Append(attempts, "memory")
                  /\ pc' = "zipload"
                  /\ UNCHANGED << zipData, retries, downloadProgress,
                                  failedSrc, unavailable >>
             ELSE IF GetModelDataFromSession(session) # Null
             THEN /\ modelLoadingStage' = "extracting"
                  /\ downloadProgress' = 100
                  /\ zipData' = GetModelDataFromSession(session)
                  /\ zipSource' = "session"
                  /\ attempts' = Append(attempts, "session")
                  /\ pc' = "sessionExtract"
                  /\ UNCHANGED << zipContents, retries, failedSrc,
                                  unavailable >>
             ELSE /\ modelLoadingStage' = "downloading"
                  /\ unavailable' = unavailable \cup {"session"}
                  /\ zipSource' = "download"
                  /\ attempts' = Append(attempts, "download")
                  /\ retries' = DOWNLOAD_RETRIES
                  /\ pc' = "fetch"
                  /\ UNCHANGED << zipContents, zipData, downloadProgress,
                                  failedSrc >>
  /\ UNCHANGED << hookVars, frameVars, asmVars, utilVars, probeVars, obsVars, timerVars, extractionProgress, zipCacheRef,
                  loadedModel, modelLoadSuccess, modelExists, weightsExist,
                  storeVars, thrown, mockFailed >>

\* zip.loadAsync(sessionStorageData) settles (lines 219-245); a failure here
\* is swallowed by the sessionError handler and the download begins.
LoadSessionExtract ==
  /\ pc = "sessionExtract"
  /\ IF zipData[1] # "corrupt" /\ ExtractorAccepts(zipData[1])
     THEN /\ zipCacheRef' = zipData
          /\ extractionProgress' = 100
          /\ zipContents' = zipData
          /\ pc' = "zipload"
          /\ UNCHANGED << retries, zipSource, logVars >>
     ELSE /\ zipCacheRef' = IF zipData[1] = "corrupt" THEN zipCacheRef
                            ELSE zipData
          /\ failedSrc' = failedSrc \cup {"session"}
          /\ zipSource' = "download"
          /\ attempts' = Append(attempts, "download")
          /\ retries' = DOWNLOAD_RETRIES
          /\ pc' = "fetch"
          /\ UNCHANGED << extractionProgress, zipContents, unavailable >>
  /\ reportedPercent' = 0
  /\ UNCHANGED << hookVars, frameVars, asmVars, utilVars, probeVars, obsVars, debounceTimer,
                  modelLoadingStage, downloadProgress, loadedModel,
                  modelLoadSuccess, modelExists, weightsExist, zipData,
                  storeVars, thrown, mockFailed >>

\* baseDelay of the archive's retryWithBackoff call, in milliseconds
BASE_DELAY == 500

RECURSIVE Pow2(_)
Pow2(n) == IF n <= 0 THEN 1 ELSE 2 * Pow2(n - 1)

BackoffDelay_Constant(retriesLeft) == BASE_DELAY

\* const delay = baseDelay * Math.pow(2, 3 - retries)
BackoffDelay(retriesLeft) == BASE_DELAY * Pow2(3 - retriesLeft)

\* retryWithBackoff: if (retries <= 0) throw error
RetriesExhausted(n) == n <= 0

\* One fetch of the archive under retryWithBackoff (lines 112-127, 248-270).
LoadFetch ==
  /\ pc = "fetch"
  /\ Settles("download")
  /\ fetchCount' = fetchCount + 1
  /\ \E ok \in BOOLEAN :
       IF ok
       THEN /\ pc' = "read"
            /\ UNCHANGED << modelLoadingStage, retries, failedSrc, waits >>
       ELSE IF RetriesExhausted(retries)
       THEN /\ ZipGivenUp("download")
            /\ UNCHANGED << modelLoadingStage, retries, waits >>
       ELSE /\ modelLoadingStage' = "download-retry"
            /\ waits' = Append(waits, BackoffDelay(retries))
            /\ retries' = retries - 1
            /\ pc' = "fetch"
            /\ UNCHANGED failedSrc
  /\ UNCHANGED << hookVars, frameVars, asmVars, utilVars, probeVars, saveFailed, saves, stuck, timerVars,
                  progressVars, zipCacheRef, loadedModel,
                  modelLoadSuccess, modelExists, weightsExist, zipContents,
                  zipData, zipSource, storeVars, attempts, unavailable, thrown,
                  mockFailed >>

\* The body is read to its end (lines 281-315): progress, the session copy
\* (storeModelDataInSession swallows its own failure), stage 'extracting'.
LoadRead ==
  /\ pc = "read"
  /\ \E body \in ArchiveKinds \cup {"corrupt", "neterror"}, stored \in BOOLEAN :
       IF body = "neterror"
       THEN /\ ZipGivenUp("download")
            /\ UNCHANGED << modelLoadingStage, downloadProgress, session,
                            zipData >>
       ELSE /\ downloadProgress' = 100
            /\ session' = IF stored
                          THEN << [data |-> body, fresh |-> TRUE,
                                   version |-> CACHE_KEY] >>
                          ELSE session
            /\ modelLoadingStage' = "extracting"
            /\ zipData' = << body >>
            /\ pc' = "extract"
            /\ UNCHANGED failedSrc
  /\ UNCHANGED << hookVars, frameVars, asmVars, utilVars, probeVars, obsVars, timerVars, extractionProgress, zipCacheRef,
                  loadedModel, modelLoadSuccess, modelExists, weightsExist,
                  zipContents, retries, zipSource, idbCache, lsCache, attempts,
                  unavailable, thrown, mockFailed >>

\* zip.loadAsync(zipData) settles (lines 325-355): the memory cache is set
\* before the descriptor is looked for.
LoadExtract ==
  /\ pc = "extract"
  /\ IF zipData[1] # "corrupt" /\ ExtractorAccepts(zipData[1])
     THEN /\ zipCacheRef' = zipData
          /\ extractionProgress' = 100
          /\ zipContents' = zipData
          /\ pc' = "zipload"
          /\ UNCHANGED failedSrc
     ELSE /\ zipCacheRef' = IF zipData[1] = "corrupt" THEN zipCacheRef
                            ELSE zipData
          /\ ZipGivenUp("download")
          /\ UNCHANGED << extractionProgress, zipContents >>
  /\ UNCHANGED << hookVars, frameVars, asmVars, utilVars, probeVars, obsVars, timerVars, modelLoadingStage, downloadProgress,
                  loadedModel, modelLoadSuccess, modelExists, weightsExist,
                  zipData, retries, zipSource, storeVars, attempts, unavailable,
                  thrown, mockFailed >>

\* createZipIOHandler(zipContents) and tf.loadLayersModel, up to the first
\* await of the handler's load (lines 572-575, 365-382)
LoadZipLoad ==
  /\ pc = "zipload"
  /\ modelLoadingStage' = "loading"
  /\ pc' = "ziparts"
  /\ UNCHANGED << hookVars, frameVars, asmVars, utilVars, probeVars, obsVars, timerVars, progressVars, zipCacheRef,
                  cascadeLocals, storeVars, logVars, thrown, mockFailed >>

\* tf.loadLayersModel(zipIOHandler) settles (lines 575-581, 588-590)
LoadZipArtifacts ==
  /\ pc = "ziparts"
  /\ IF DescriptorLocated(zipContents[1]) /\ zipContents[1] = "good"
     THEN /\ \E r \in {"real", "nopredict"} : loadedModel' = r
          /\ modelLoadSuccess' = TRUE
          /\ modelLoadingStage' = "caching"
          /\ pc' = "zipsave"
          /\ UNCHANGED failedSrc
     ELSE /\ ZipGivenUp(zipSource)
          /\ UNCHANGED << loadedModel, modelLoadSuccess, modelLoadingStage >>
  /\ UNCHANGED << hookVars, frameVars, asmVars, utilVars, probeVars, obsVars, timerVars, progressVars, zipCacheRef,
                  modelExists, weightsExist, zipContents, zipData, retries,
                  zipSource, storeVars, attempts, unavailable, thrown,
                  mockFailed >>

SaveCall_Synthetic(store, source, saved) ==
  [ store |-> store, model |-> "mock", source |-> "mock", ok |-> saved ]

\* loadedModel.save(`<store>://${MODEL_URL.CACHE_KEY}`) as the cascade calls
\* it after loading from the given source (lines 583, 613)
SaveCall(store, source, saved) ==
  [ store |-> store, model |-> loadedModel, source |-> source, ok |-> saved ]

ErrorAfterSave_Surfaced(saved, e) ==
  IF saved THEN e ELSE << "Failed to cache model" >>

\* the cachingError handlers (lines 585-587, 615-617) only console.warn:
\* the hook's error is what it was
ErrorAfterSave(saved, e) == e

\* loadedModel.save('indexeddb://...') settles; a failure is only logged
\* (lines 580-587).
LoadZipSave ==
  /\ pc = "zipsave"
  /\ \E saved \in BOOLEAN :
       /\ idbCache' = IF saved THEN loadedModel ELSE idbCache
       /\ saveFailed' = (saveFailed \/ ~saved)
       /\ saves' = Append(saves, SaveCall("indexeddb", "download", saved))
       /\ error' = ErrorAfterSave(saved, error)
  /\ pc' = "direct"
  /\ UNCHANGED << model, isLoading, frameVars, asmVars, utilVars, probeVars, fetchCount, waits,
                  stuck, timerVars, modelLoadingStage, progressVars,
                  zipCacheRef, cascadeLocals, session, lsCache, logVars,
                  thrown, mockFailed >>

\* the last value onProgress reports while the direct download runs
DirectProgress == {0, 50, 100}

\* 5. direct load from the remote URL (lines 594-621)
LoadDirect ==
  /\ pc = "direct"
  /\ ~modelLoadSuccess => Settles("direct")
  /\ IF modelLoadSuccess
     THEN /\ pc' = "mock"
          /\ UNCHANGED << modelLoadingStage, downloadProgress, loadedModel,
                          modelLoadSuccess, attempts, failedSrc >>
     ELSE /\ modelLoadingStage' = "loading-from-server"
          /\ attempts' = Append(attempts, "direct")
          /\ \E p \in DirectProgress : downloadProgress' = p
          /\ \E r \in LoadOutcomes :
               IF r = "fail"
               THEN /\ failedSrc' = failedSrc \cup {"direct"}
                    /\ pc' = "mock"
                    /\ UNCHANGED << loadedModel, modelLoadSuccess >>
               ELSE /\ loadedModel' = r
                    /\ modelLoadSuccess' = TRUE
                    /\ pc' = "directsave"
                    /\ UNCHANGED failedSrc
  /\ UNCHANGED << hookVars, frameVars, asmVars, utilVars, probeVars, obsVars, timerVars, extractionProgress, zipCacheRef,
                  modelExists, weightsExist, zipContents, zipData, retries,
                  zipSource, storeVars, unavailable, thrown, mockFailed >>

\* the best-effort save of the direct-loaded model (lines 612-617)
LoadDirectSave ==
  /\ pc = "directsave"
  /\ \E saved \in BOOLEAN :
       /\ idbCache' = IF saved THEN loadedModel ELSE idbCache
       /\ saveFailed' = (saveFailed \/ ~saved)
       /\ saves' = Append(saves, SaveCall("indexeddb", "direct", saved))
       /\ error' = ErrorAfterSave(saved, error)
  /\ pc' = "mock"
  /\ UNCHANGED << model, isLoading, frameVars, asmVars, utilVars, probeVars, fetchCount, waits,
                  stuck, timerVars, modelLoadingStage, progressVars,
                  zipCacheRef, cascadeLocals, session, lsCache, logVars,
                  thrown, mockFailed >>

\* Last resort (lines 624-628), then the warm-up up to its await (630-635):
\* tf.tidy runs its callback synchronously; the callback catches everything,
\* tf.tidy itself is outside any inner try.
LoadMock ==
  /\ pc = "mock"
  /\ \E mockCreated \in BOOLEAN, tidyThrows \in BOOLEAN :
       /\ attempts' = IF modelLoadSuccess THEN attempts
                      ELSE Append(attempts, "synthetic")
       /\ IF ~modelLoadSuccess /\ ~mockCreated
          THEN /\ CatchAndFinally
               /\ UNCHANGED loadedModel
          ELSE /\ loadedModel' = IF modelLoadSuccess THEN loadedModel
                                 ELSE "mock"
               /\ IF tidyThrows
                  THEN CatchAndFinally
                  ELSE /\ error' = IF modelLoadSuccess THEN error
                                   ELSE << "Could not load real model" >>
                       /\ modelLoadingStage' = "warming-up"
                       /\ pc' = "warmup"
                       /\ UNCHANGED << model, isLoading, thrown, mockFailed >>
  /\ UNCHANGED << frameVars, asmVars, utilVars, probeVars, obsVars, timerVars, progressVars, zipCacheRef, modelLoadSuccess,
                  modelExists, weightsExist, zipContents, zipData, retries,
                  zipSource, storeVars, failedSrc, unavailable >>

\* How the warm-up inference can end (lines 635-670): "failed" when predict
\* is missing, returns nothing or throws; every case only logs.
WarmupOutcomes(m) ==
  IF m # "none" /\ HasPredict(m) THEN { "ok", "failed" } ELSE { "failed" }

\* How the validation inference can end (lines 690-715): the output length
\* equals classLabels.length ("ok"), differs ("mismatch"), or predict throws
\* ("threw", always so when predict is not a function).
ValidationOutcomes(m) ==
  IF m # "none" /\ HasPredict(m) THEN { "ok", "mismatch", "threw" }
  ELSE { "threw" }

ProbeFailureFatal_OnMismatch(w, v) == v = "mismatch"

\* Whether the outcome of the warm-up or of the validation is thrown to the
\* outer catch: never, the warm-up has its own try/catch (lines 636, 665),
\* the validation too (lines 690, 713), and a mismatch is console.warn
\* (line 709).
ProbeFailureFatal(w, v) == FALSE

\* The warm-up await resumes (warmupSuccess is read at line 672); summary
\* and validation are guarded and only log (lines 676-715), up to the await
\* of the validation.
LoadValidate ==
  /\ pc = "warmup"
  /\ pc' = "validate"
  /\ warmup' \in WarmupOutcomes(loadedModel)
  /\ validation' \in ValidationOutcomes(loadedModel)
  /\ UNCHANGED << hookVars, frameVars, asmVars, utilVars, obsVars, timerVars, modelLoadingStage, progressVars,
                  zipCacheRef, cascadeLocals, storeVars, logVars, thrown,
                  mockFailed >>

\* setModelLoadingStage('ready'), the final check and the finally block
\* (lines 716-725, 748-750).
LoadFinish ==
  /\ pc = "validate"
  /\ IF /\ loadedModel # "none" /\ HasPredict(loadedModel)
        /\ ~ProbeFailureFatal(warmup, validation)
     THEN /\ modelLoadingStage' = "ready"
          /\ model' = loadedModel
          /\ isLoading' = FALSE
          /\ pc' = "done"
          /\ UNCHANGED << error, thrown, mockFailed >>
     ELSE CatchAndFinally
  /\ UNCHANGED << frameVars, asmVars, utilVars, probeVars, obsVars, timerVars, progressVars, zipCacheRef, cascadeLocals,
                  storeVars, logVars >>

\* percentages the extraction reports through onUpdate, in rising order
ExtractionPercents == {40, 80}

\* percentages (loadedBytes / totalBytes) * 100 of the chunks read so far;
\* the body is longer than content-length when the server compressed it
DownloadPercents == {50, 150}

\* the extraction whose debounced updater is live: the session archive's or
\* the downloaded archive's
RunningExtraction == Len(attempts)

DebounceSchedule_KeepFirst(timers, op, percent) ==
  IF \E t \in timers : t[1] = op THEN timers ELSE timers \cup { << op, percent >> }

\* debounce(func, 100): clearTimeout(timeout); timeout = setTimeout(later):
\* a call replaces the pending call of the same debounced function
DebounceSchedule(timers, op, percent) ==
  { t \in timers : t[1] # op } \cup { << op, percent >> }

\* onUpdate of zip.loadAsync: debouncedUpdateProgress(Math.round(percent))
\* (lines 221-226, 327-332)
ExtractionUpdate ==
  /\ pc \in {"sessionExtract", "extract"}
  /\ \E percent \in ExtractionPercents :
       /\ percent > reportedPercent
       /\ reportedPercent' = percent
       /\ debounceTimer' = DebounceSchedule(debounceTimer, RunningExtraction,
                                            percent)
  /\ UNCHANGED << hookVars, frameVars, asmVars, utilVars, probeVars, obsVars, modelLoadingStage,
                  progressVars, zipCacheRef, pc, cascadeLocals, storeVars,
                  logVars, thrown, mockFailed >>

\* a pending timeout of a debounced updater runs: setExtractionProgress
\* (lines 214-217, 319-322); nothing cancels it when the extraction ends
DebounceFires ==
  /\ \E t \in debounceTimer :
       /\ extractionProgress' = t[2]
       /\ debounceTimer' = debounceTimer \ {t}
  /\ UNCHANGED << hookVars, frameVars, asmVars, utilVars, probeVars, obsVars, reportedPercent,
                  modelLoadingStage, downloadProgress, zipCacheRef, pc,
                  cascadeLocals, storeVars, logVars, thrown, mockFailed >>

\* reader.read() resolves with a chunk (lines 282-295)
LoadChunk ==
  /\ pc = "read"
  /\ Settles("download")
  /\ \E percent \in DownloadPercents :
       /\ percent > downloadProgress
       /\ downloadProgress' = percent
  /\ UNCHANGED << hookVars, frameVars, asmVars, utilVars, probeVars, obsVars, timerVars,
                  modelLoadingStage, extractionProgress, zipCacheRef, pc,
                  cascadeLocals, storeVars, logVars, thrown, mockFailed >>

NextLoad ==
  \/ LoadStart
  \/ LoadReady
  \/ LoadLocal
  \/ LoadIndexedDB
  \/ LoadLocalStorage
  \/ LoadZip
  \/ LoadSessionExtract
  \/ LoadFetch
  \/ LoadRead
  \/ LoadExtract
  \/ LoadZipLoad
  \/ LoadZipArtifacts
  \/ LoadZipSave
  \/ LoadDirect
  \/ LoadDirectSave
  \/ LoadMock
  \/ LoadValidate
  \/ LoadFinish
  \/ ExtractionUpdate
  \/ DebounceFires
  \/ LoadChunk

SpecLoad == InitLoad /\ [][NextLoad]_vars

\* the sources loadModel awaits
HangPoints == {"local", "indexeddb", "localstorage", "download", "direct"}

\* one acquisition in which the promise of one source never settles
InitLoadHang == \E src \in HangPoints : LoadInitial(src)

\* Every continuation whose promise settles is eventually run.
SpecLoadHang == InitLoadHang /\ [][NextLoad]_vars /\ WF_vars(NextLoad)

\* The `model` the cleanup closure reads: the effect's dependencies
\* (isMobile, classLabels.length) never change, so the only cleanup is the
\* one created by the first render, whose `model` is the initial state
\* useState(null).
CleanupModel == "none"

\* The cleanup returned by the loading effect (lines 758-774):
\* if (model) { model.dispose() ... }; zipCacheRef.current = null.
\* loadModel is not told: it holds no mounted flag and no abort signal.
Teardown ==
  /\ ~unmounted
  /\ unmounted' = TRUE
  /\ disposed' = IF CleanupModel # "none"
                 THEN disposed \cup { CleanupModel }
                 ELSE disposed
  /\ UNCHANGED << lmHands, purgeVars, clearVars >>
  /\ zipCacheRef' = Null
  /\ UNCHANGED << hookVars, frameVars, asmVars, probeVars, obsVars, timerVars,
                  progressVars, modelLoadingStage, pc, cascadeLocals,
                  storeVars, logVars, thrown, mockFailed >>

NextUnmount == NextLoad \/ Teardown

\* a page whose persistent caches are empty and whose sessionStorage holds
\* nothing or a blob younger than the freshness window (a stale blob is
\* read as nothing)
InitUnmount ==
  /\ InitLoad
  /\ idbCache = "none"
  /\ lsCache = "none"
  /\ (session = Null \/ session[1].fresh)

\* one acquisition, with the component unmounting at any moment
SpecUnmount == InitUnmount /\ [][NextUnmount]_vars

(***************************************************************************)
(* Properties of the acquisition cascade (SpecLoad)                        *)
(***************************************************************************)
\* the cascade's sources in the documented priority order
CascadeOrder == << "local", "indexeddb", "localstorage", "session", "download",
                   "direct", "synthetic" >>

Rank(src) == CHOOSE i \in 1..Len(CascadeOrder) : CascadeOrder[i] = src

CascadeAttempts ==
  SelectSeq(attempts, LAMBDA a : \E i \in 1..Len(CascadeOrder) : CascadeOrder[i] = a)

\* C1: when the local model, both cache tiers, the archive and the direct
\* URL have all failed and loading has finished, the synthetic model is
\* installed, the exposed isMockModel flag is true, error is non-empty and
\* the loading stage is 'ready'.
C1_SyntheticFallbackFlagged ==
  (pc = "done" /\ ~modelLoadSuccess /\ ~thrown)
    => /\ model = "mock"
       /\ IsMockModel
       /\ error # Null
       /\ modelLoadingStage = "ready"

\* C2: sources are attempted in strictly increasing priority order, a source
\* is started only after every earlier source has failed or was unavailable,
\* and after a success no later source is attempted.
C2_StrictOrder ==
  LET att == CascadeAttempts
  IN /\ \A i \in 1..Len(att) : \A j \in 1..Len(att) :
          i < j => Rank(att[i]) < Rank(att[j])
     /\ \A i \in 1..Len(att) : \A k \in 1..(Rank(att[i]) - 1) :
          CascadeOrder[k] \in failedSrc \cup unavailable
     /\ modelLoadSuccess => (att # << >> /\ att[Len(att)] \notin failedSrc)

\* C3 as stated: once isLoading is false, a model with a predict function is
\* installed, on every path.
C3_AlwaysUsableModel ==
  ~isLoading => model \in {"real", "mock"}

\* C3 amended: loadModel always runs to its end with isLoading false and no
\* exception escaping; then a model with a predict function is installed,
\* unless createMockModel failed inside the catch handler, in which case no
\* new model is installed and error holds the 'Complete failure' explanation;
\* whenever the catch handler ran, error is non-empty.
C3_UsableModelOrExplanation ==
  /\ (pc = "done") <=> ~isLoading
  /\ ~isLoading =>
       /\ model \in {"real", "mock"} \/ (mockFailed /\ model = "none")
       /\ mockFailed => error = << "Complete failure" >>
       /\ thrown => error # Null

\* an exception after the synthetic model was substituted: the catch handler
\* installed a second synthetic model
C3_Witness ==
  /\ pc = "done"
  /\ thrown
  /\ loadedModel = "mock"
  /\ CascadeAttempts # << >>
  /\ CascadeAttempts[Len(CascadeAttempts)] = "synthetic"
  /\ model = "mock"
  /\ modelLoadingStage = "error"

\* the blob in sessionStorage is one the loader must reject: stored under
\* another cache key, older than the freshness window, or failing the
\* integrity or descriptor check when it is extracted again
SessionBlobRejected ==
  /\ session # Null
  /\ \/ session[1].version # CACHE_KEY
     \/ ~session[1].fresh
     \/ session[1].data \in {"corrupt", "nodescriptor"}

\* C13: a session blob with a mismatched version, past the freshness window
\* or failing re-extraction is rejected, and the loader goes on to the
\* fresh download without throwing: once the archive step has dealt with
\* the blob, the archive in use is the downloaded one, the download was the
\* source started right after the session blob's turn, and no exception
\* has reached the outer catch while the download is in progress.
C13_SessionRejectFallsToDownload ==
  (SessionBlobRejected /\ zipSource # "none" /\ pc # "sessionExtract") =>
    /\ zipSource = "download"
    /\ "session" \in failedSrc \cup unavailable
    /\ \E k \in 1..Len(attempts) :
         /\ attempts[k] = "download"
         /\ k > 1 => attempts[k - 1] \in {"session", "localstorage"}
    /\ pc \in {"fetch", "read", "extract"} => (~thrown /\ isLoading)

\* the fetch begins after a fresh, current-version blob failed its
\* descriptor check
C13_Witness ==
  /\ pc = "fetch"
  /\ session # Null
  /\ session[1].version = CACHE_KEY
  /\ session[1].fresh
  /\ session[1].data = "nodescriptor"
  /\ "session" \in failedSrc
  /\ attempts[Len(attempts)] = "download"

\* C14: a failed save to the persistent cache does not abort the
\* acquisition and is not shown to the user: the load that preceded it
\* stays successful, its source is the last one attempted (the synthetic
\* model is not substituted), error stays unset and the loaded model is the
\* one installed, as long as no later step of loadModel throws.
C14_SaveFailureHarmless ==
  saveFailed =>
    /\ modelLoadSuccess
    /\ CascadeAttempts[Len(CascadeAttempts)] \in {"session", "download", "direct"}
    /\ ~thrown => error = Null
    /\ (pc = "done" /\ ~thrown) => (model = loadedModel /\ modelLoadingStage = "ready")
    /\ pc \in {"direct", "mock"} => (~thrown /\ isLoading)

\* the archive's model was installed although its save had failed
C14_Witness ==
  /\ pc = "done"
  /\ saveFailed
  /\ idbCache = "none"
  /\ zipSource = "download"
  /\ model = "real"
  /\ error = Null
  /\ modelLoadingStage = "ready"

\* C15: a source that hangs does not block the cascade: the stage is given
\* up after a timeout and loading eventually finishes (isLoading = false).
C15_HangNeverBlocks == <>(~isLoading)

\* C16: while one source is in progress, downloadProgress and
\* extractionProgress never decrease, also once the final 100 has been set.
C16_ProgressMonotone ==
  [][ attempts' = attempts =>
        /\ downloadProgress' >= downloadProgress
        /\ extractionProgress' >= extractionProgress ]_vars

\* C17 as stated: when the acquired object has no predict function, the
\* synthetic model is the one installed once loading has finished.
C17_SyntheticReplacesUnusable ==
  (pc = "done" /\ loadedModel = "nopredict") => model = "mock"

\* C17 amended: when the acquired object has no predict function, the
\* acquisition is treated as failed (the final check throws, the stage is
\* 'error', error is set) and the object is never installed; the synthetic
\* model is installed in its place whenever createMockModel succeeds in the
\* catch handler, and otherwise no model is installed.
C17_UnusableModelNeverInstalled ==
  /\ model # "nopredict"
  /\ (pc = "done" /\ loadedModel = "nopredict") =>
       /\ thrown
       /\ modelLoadingStage = "error"
       /\ error # Null
       /\ ~mockFailed => model = "mock"
       /\ mockFailed => model = "none"

\* a load from the direct URL produced an object without predict and the
\* synthetic model took its place
C17_Witness ==
  /\ pc = "done"
  /\ loadedModel = "nopredict"
  /\ modelLoadSuccess
  /\ attempts[Len(attempts)] = "direct"
  /\ model = "mock"
  /\ modelLoadingStage = "error"

\* C18: an archive the extractor accepts has an entry whose name ends in
\* 'model.json' (extraction fails whenever there is none), so the assembler
\* can locate the descriptor of every accepted archive.
C18_AcceptedArchiveHasDescriptor ==
  zipContents # Null =>
    \E name \in ArchiveEntries(zipContents[1]) :
      name[Len(name)] = "model.json"

\* C19 as stated: the archive is fetched at most 3 times in total.
C19_AtMostThreeFetches == fetchCount <= 3

\* C19 amended: the archive is fetched at most 4 times (one attempt and 3
\* retries); the wait after failed attempt number n (n = 0, 1, 2) is
\* 500 * 2^n ms; the download is given up by the retry loop only when the
\* fourth fetch has failed, and the source attempted next is the direct URL.
C19_FourFetchesWithBackoff ==
  /\ [](/\ fetchCount <= 4
        /\ Len(waits) <= 3
        /\ \A n \in 0..(Len(waits) - 1) :
             waits[n + 1] = 500 * Pow2(n)
        /\ pc = "fetch" => (Len(waits) = fetchCount /\ fetchCount <= 3)
        /\ \A k \in 1..(Len(attempts) - 1) :
             attempts[k] = "download" => attempts[k + 1] = "direct")
  /\ [][(pc = "fetch" /\ pc' = "direct") =>
          (fetchCount' = 4 /\ waits' = << 500, 1000, 2000 >>
             /\ "download" \in failedSrc')]_vars

\* the direct URL is loading after four failed fetches of the archive
C19_Witness ==
  /\ fetchCount = 4
  /\ waits = << 500, 1000, 2000 >>
  /\ "download" \in failedSrc
  /\ Len(attempts) > 1
  /\ attempts[Len(attempts)] = "direct"
  /\ attempts[Len(attempts) - 1] = "download"

\* C20: the loading stage only takes the documented values (initializing,
\* downloading, download-retry, extracting, loading, loading-from-cache,
\* loading-from-server, caching, warming-up, ready, error), and once it is
\* 'ready' or 'error' it does not change again within the acquisition.
C20_StageDiscipline ==
  /\ [](modelLoadingStage \in
          { "initializing", "downloading", "download-retry", "extracting",
            "loading", "loading-from-cache", "loading-from-server",
            "caching", "warming-up", "ready", "error" })
  /\ [][(modelLoadingStage = "ready" \/ modelLoadingStage = "error") =>
          (modelLoadingStage' = modelLoadingStage)]_vars

\* C21: once the cleanup has run, the acquired model has been disposed and
\* the in-memory archive cache stays cleared, and an acquisition that was in
\* flight at teardown installs no model afterwards.
C21_TeardownReleasesAndDiscards ==
  /\ [](unmounted => (model = "none" \/ model \in disposed))
  /\ [](unmounted => zipCacheRef = Null)
  /\ [][unmounted => (model' = model)]_vars

C23_TwoTierCache ==
  /\ \A k \in 1..Len(attempts) :
       attempts[k] = "localstorage" =>
         (k > 1 /\ attempts[k - 1] = "indexeddb" /\ "indexeddb" \in failedSrc)
  /\ \A k \in 1..Len(saves) :
       /\ saves[k].store = "localstorage" =>
            (k > 1 /\ saves[k - 1].store = "indexeddb" /\ ~saves[k - 1].ok)
       /\ (saves[k].store = "indexeddb" /\ ~saves[k].ok) =>
            (k < Len(saves) /\ saves[k + 1].store = "localstorage")

\* C28: whenever the in-memory archive cache is non-null, the archive it
\* holds passed the descriptor check of downloadAndExtractModelZip, so the
\* archive a call takes from the cache has a model.json entry.
C28_CachedArchiveValidated ==
  /\ zipCacheRef # Null => ExtractorAccepts(zipCacheRef[1])
  /\ (zipSource = "memory" /\ zipContents # Null) =>
       ExtractorAccepts(zipContents[1])

\* C29: every save to the persistent cache is made right after the model
\* was loaded from the archive or from the direct URL, and saves that
\* model; the synthetic model and a model loaded from the local bundle or
\* from the cache are never saved, and the cache never holds the synthetic
\* model.
C29_OnlyFetchedModelsSaved ==
  /\ [](/\ \A k \in 1..Len(saves) :
             /\ saves[k].source \in { "download", "direct" }
             /\ saves[k].model \notin { "none", "mock" }
        /\ idbCache # "mock"
        /\ lsCache # "mock"
        /\ (saves # << >> /\ pc \in { "direct", "mock" }) =>
              (modelLoadSuccess /\ loadedModel = saves[Len(saves)].model)
        /\ (loadedModel = "mock" \/ attempts = << >>
               \/ attempts[Len(attempts)] \in { "local", "indexeddb", "localstorage" })
              => saves = << >>)
  /\ [][saves' # saves =>
          /\ pc \in { "zipsave", "directsave" }
          /\ modelLoadSuccess
          /\ Len(saves') = Len(saves) + 1
          /\ saves'[Len(saves')].model = loadedModel
          /\ saves'[Len(saves')].source =
               (IF pc = "zipsave" THEN "download" ELSE "direct")
          /\ attempts[Len(attempts)] =
               (IF pc = "zipsave" THEN zipSource ELSE "direct")]_vars

\* the model loaded from the direct URL has been saved to IndexedDB, and
\* loading ended with it installed
C29_Witness ==
  /\ pc = "done"
  /\ model = "real"
  /\ Len(saves) = 1
  /\ saves[1] = [ store |-> "indexeddb", model |-> "real", source |-> "direct",
                  ok |-> TRUE ]
  /\ idbCache = "real"

(***************************************************************************)
(* Weight assembly: createZipIOHandler(zipContents).load, lines 385-444    *)
(*                                                                         *)
(* An entry key or a manifest path is the sequence of its '/'-separated    *)
(* components, so 'model/' + path is << "model" >> \o path and './w.bin'   *)
(* is << ".", "w.bin" >>.  A byte buffer is a sequence of numbers.         *)
(***************************************************************************)
NumFiles == 3

FileNames == << "w1.bin", "w2.bin", "w3.bin", "w4.bin", "w5.bin" >>

\* the bytes of the i-th weight file: i bytes, different in every file
FileBytes(i) == [ k \in 1..i |-> 10 * i + k ]

Last(seq) == seq[Len(seq)]

BytesOfName(name) ==
  FileBytes(CHOOSE i \in 1..Len(FileNames) : FileNames[i] = name)

RECURSIVE ConcatAll(_)
\* the reduce / set / offset loops of lines 421-429 and 436-444
ConcatAll(bufs) ==
  IF bufs = << >> THEN << >> ELSE Head(bufs) \o ConcatAll(Tail(bufs))

\* path.replace(/^\.\//, '')
StripDotSlash(path) ==
  IF Len(path) > 0 /\ path[1] = "." THEN Tail(path) ELSE path

PossiblePaths_RootFirst(modelDir, path) ==
  << path, modelDir \o path, << "assets" >> \o path, << "model" >> \o path,
     StripDotSlash(path) >>

\* possiblePaths (lines 393-399)
PossiblePaths(modelDir, path) ==
  << modelDir \o path, path, << "model" >> \o path, << "assets" >> \o path,
     StripDotSlash(path) >>

\* the for loop of lines 402-409: the first candidate that is an entry
ResolveWeightFile(files, modelDir, path) ==
  LET cand == PossiblePaths(modelDir, path)
      hits == { i \in 1..Len(cand) : cand[i] \in DOMAIN files }
  IN IF hits = {} THEN Null
     ELSE << cand[CHOOSE i \in hits : \A j \in hits : i <= j] >>

StoreResult_CompletionOrder(bufs, slot, nth, bytes) ==
  [bufs EXCEPT ![nth] = << bytes >>]

\* Promise.all: a settled read fills the slot of its path, whenever it
\* settles (nth is its rank among the settled reads of its group)
StoreResult(bufs, slot, nth, bytes) ==
  [bufs EXCEPT ![slot] = << bytes >>]

RECURSIVE SplitGroups(_,_,_)
\* the manifest that lists files 1..NumFiles in order, a new group opening
\* after every file in cuts
SplitGroups(f, cuts, acc) ==
  IF f > NumFiles THEN acc
  ELSE IF f = 1 \/ (f - 1) \in cuts
       THEN SplitGroups(f + 1, cuts, Append(acc, << f >>))
       ELSE SplitGroups(f + 1, cuts,
                        [acc EXCEPT ![Len(acc)] = Append(@, f)])

\* directories an archive may keep a weight file under
EntryDirs(modelDir) ==
  { << >>, << "model" >>, << "assets" >>, << "other" >>, modelDir }

\* directories an archive may keep a second copy of its first weight file
\* under, so that more than one candidate path is an entry
CopyDirs == { << >>, << "model" >> }

\* The handler's load has parsed the descriptor (line 383): an archive whose
\* weight files lie each under some directory, and a manifest whose paths
\* are written plainly or with a leading './'.
InitAsm ==
  /\ \E dir \in { << >>, << "tfjs" >> },
        dotSlash \in BOOLEAN,
        cuts \in SUBSET (1..(NumFiles - 1)) :
       /\ asmModelDir = dir
       /\ asmManifest =
            LET groups == SplitGroups(1, cuts, << >>)
            IN [ g \in 1..Len(groups) |->
                 [ i \in 1..Len(groups[g]) |->
                     IF dotSlash THEN << ".", FileNames[groups[g][i]] >>
                     ELSE << FileNames[groups[g][i]] >> ] ]
       /\ \E where \in [1..NumFiles -> EntryDirs(dir)],
             copy \in {Null} \cup { << d >> : d \in CopyDirs } :
            asmFiles =
              LET keys == { where[f] \o << FileNames[f] >> : f \in 1..NumFiles }
                             \cup { c[1] \o << FileNames[1] >> :
                                      c \in {copy} \ {Null} }
              IN [ key \in keys |-> BytesOfName(Last(key)) ]
  /\ asmResolved = << >>
  /\ asmPendingReads = {}
  /\ asmBuffers = << >>
  /\ asmDone = << >>
  /\ asmGroupData = << >>
  /\ asmWeightData = Null
  /\ asmCompletion = << >>
  /\ asmError = Null
  /\ asmConsole = Null
  /\ asmPc = "start"
  /\ frameIdle
  /\ utilIdle
  /\ model = "none"
  /\ isLoading = TRUE
  /\ error = Null
  /\ modelLoadingStage = "loading"
  /\ downloadProgress = 100
  /\ extractionProgress = 100
  /\ zipCacheRef = << "good" >>
  /\ pc = "ziparts"
  /\ loadedModel = "none"
  /\ modelLoadSuccess = FALSE
  /\ modelExists = FALSE
  /\ weightsExist = FALSE
  /\ zipContents = << "good" >>
  /\ zipData = << "good" >>
  /\ retries = DOWNLOAD_RETRIES
  /\ session = Null
  /\ idbCache = "none"
  /\ lsCache = "none"
  /\ attempts = << "indexeddb", "localstorage", "download" >>
  /\ failedSrc = {"indexeddb", "localstorage"}
  /\ unavailable = {"local", "session"}
  /\ zipSource = "download"
  /\ thrown = FALSE
  /\ mockFailed = FALSE
  /\ stuck = "none"
  /\ saveFailed = FALSE
  /\ saves = << >>
  /\ fetchCount = 1
  /\ waits = << >>
  /\ debounceTimer = {}
  /\ reportedPercent = 0
  /\ warmup = "none"
  /\ validation = "none"

\* the first path, in the order the map callbacks run, that has no entry:
\* its rejection is the one Promise.all rejects with
FirstMissing(resolved) ==
  CHOOSE gi \in (1..Len(resolved)) \X (1..NumFiles) :
    /\ gi[2] <= Len(resolved[gi[1]])
    /\ resolved[gi[1]][gi[2]] = Null
    /\ \A hj \in (1..Len(resolved)) \X (1..NumFiles) :
         (hj[2] <= Len(resolved[hj[1]]) /\ resolved[hj[1]][hj[2]] = Null)
           => (gi[1] < hj[1] \/ (gi[1] = hj[1] /\ gi[2] <= hj[2]))

\* new Error(`Weight file not found in ZIP for path: ${path}`): the paths
\* the message names are the manifest path alone
WeightFileNotFound(path) ==
  [message |-> "Weight file not found in ZIP for path", names |-> {path}]

\* Both map callbacks run to their awaits (lines 387-416): every path is
\* resolved and its read started; a path with no entry rejects the load.
AsmStartReads ==
  /\ asmPc = "start"
  /\ LET resolved ==
           [ g \in 1..Len(asmManifest) |->
             [ i \in 1..Len(asmManifest[g]) |->
                 ResolveWeightFile(asmFiles, asmModelDir, asmManifest[g][i]) ] ]
     IN IF \E g \in 1..Len(resolved) : \E i \in 1..Len(resolved[g]) :
             resolved[g][i] = Null
        THEN /\ asmPc' = "failed"
             /\ LET missing == FirstMissing(resolved)
                    path == asmManifest[missing[1]][missing[2]]
                IN /\ asmConsole' = << PossiblePaths(asmModelDir, path) >>
                   /\ asmError' = << WeightFileNotFound(path) >>
             /\ UNCHANGED << asmResolved, asmPendingReads, asmBuffers, asmDone,
                             asmGroupData >>
        ELSE /\ asmPc' = "reading"
             /\ UNCHANGED << asmError, asmConsole >>
             /\ asmResolved' = resolved
             /\ asmPendingReads' =
                  { gi \in (1..Len(resolved)) \X (1..NumFiles) :
                      gi[2] <= Len(resolved[gi[1]]) }
             /\ asmBuffers' = [ g \in 1..Len(resolved) |->
                                [ i \in 1..Len(resolved[g]) |-> Null ] ]
             /\ asmDone' = [ g \in 1..Len(resolved) |-> 0 ]
             /\ asmGroupData' = [ g \in 1..Len(resolved) |-> Null ]
  /\ UNCHANGED << asmFiles, asmModelDir, asmManifest, asmWeightData,
                  asmCompletion, hookVars, frameVars, loadVars, utilVars >>

\* One weightFile.async('arraybuffer') settles (line 416), in any order.
AsmReadSettles ==
  /\ asmPc = "reading"
  /\ \E gi \in asmPendingReads, ok \in BOOLEAN :
       LET g == gi[1]
           i == gi[2]
       IN IF ok
          THEN /\ asmBuffers' =
                    [asmBuffers EXCEPT ![g] =
                       StoreResult(@, i, asmDone[g] + 1,
                                   asmFiles[asmResolved[g][i][1]])]
               /\ asmDone' = [asmDone EXCEPT ![g] = @ + 1]
               /\ asmPendingReads' = asmPendingReads \ {gi}
               /\ asmCompletion' = Append(asmCompletion, gi)
               /\ UNCHANGED << asmPc, asmError >>
          ELSE /\ asmPc' = "failed"
               /\ asmError' = << [message |-> "read failed", names |-> {}] >>
               /\ UNCHANGED << asmBuffers, asmDone, asmPendingReads,
                               asmCompletion >>
  /\ UNCHANGED << asmFiles, asmModelDir, asmManifest, asmResolved,
                  asmGroupData, asmWeightData, asmConsole, hookVars, frameVars,
                  loadVars, utilVars >>

\* The inner Promise.all of a group resolves and its buffers are joined
\* (lines 418-431).
AsmGroupCombined ==
  /\ asmPc = "reading"
  /\ \E g \in 1..Len(asmManifest) :
       /\ asmDone[g] = Len(asmManifest[g])
       /\ asmGroupData[g] = Null
       /\ asmGroupData' =
            [asmGroupData EXCEPT ![g] =
               << ConcatAll([ i \in 1..Len(asmBuffers[g]) |->
                                IF asmBuffers[g][i] = Null THEN << >>
                                ELSE asmBuffers[g][i][1] ]) >>]
  /\ UNCHANGED << asmFiles, asmModelDir, asmManifest, asmResolved,
                  asmPendingReads, asmBuffers, asmDone, asmWeightData,
                  asmCompletion, asmError, asmConsole, asmPc, hookVars,
                  frameVars, loadVars, utilVars >>

\* The outer Promise.all resolves and the group buffers are joined
\* (lines 433-444).
AsmAllCombined ==
  /\ asmPc = "reading"
  /\ \A g \in 1..Len(asmManifest) : asmGroupData[g] # Null
  /\ asmWeightData' =
       << ConcatAll([ g \in 1..Len(asmGroupData) |-> asmGroupData[g][1] ]) >>
  /\ asmPc' = "done"
  /\ UNCHANGED << asmFiles, asmModelDir, asmManifest, asmResolved,
                  asmPendingReads, asmBuffers, asmDone, asmGroupData,
                  asmCompletion, asmError, asmConsole, hookVars, frameVars,
                  loadVars, utilVars >>

NextAsm ==
  \/ AsmStartReads
  \/ AsmReadSettles
  \/ AsmGroupCombined
  \/ AsmAllCombined

SpecAsm == InitAsm /\ [][NextAsm]_vars

\* the bytes of the manifest's files in manifest order, group after group
\* and within a group path after path
ManifestBytes ==
  ConcatAll([ g \in 1..Len(asmManifest) |->
              ConcatAll([ i \in 1..Len(asmManifest[g]) |->
                          BytesOfName(Last(asmManifest[g][i])) ]) ])

\* C10: the assembled weightData is the concatenation, in manifest-group
\* order and within each group in path-list order, of the bytes of the
\* weight files, whatever directory each was found under and whatever
\* order the reads settled in.
C10_AssemblyOrderPreserving ==
  asmPc = "done" => asmWeightData = << ManifestBytes >>

\* an assembly of several groups whose reads settled out of manifest order
\* and whose files were found under different directories
C10_Witness ==
  /\ asmPc = "done"
  /\ Len(asmManifest) >= 2
  /\ \E g \in 1..Len(asmManifest) : Len(asmManifest[g]) >= 2
  /\ \E a \in 1..Len(asmCompletion) : \E b \in 1..Len(asmCompletion) :
       /\ a < b
       /\ asmCompletion[a][1] = asmCompletion[b][1]
       /\ asmCompletion[a][2] > asmCompletion[b][2]
  /\ \E a \in 1..Len(asmCompletion) : \E b \in 1..Len(asmCompletion) :
       /\ a < b
       /\ asmCompletion[a][1] > asmCompletion[b][1]
  /\ \E key1 \in DOMAIN asmFiles : \E key2 \in DOMAIN asmFiles :
       Len(key1) # Len(key2)

\* C11: every weight path resolves to the first of the candidates
\* modelDir + path, path, 'model/' + path, 'assets/' + path, path without a
\* leading './' that is an entry of the archive, and the bytes read for the
\* path are the bytes of that entry.
C11_FirstCandidateWins ==
  asmPc \in {"reading", "done"} =>
    \A g \in 1..Len(asmManifest) : \A i \in 1..Len(asmManifest[g]) :
      LET path == asmManifest[g][i]
          key == asmResolved[g][i][1]
          c1 == asmModelDir \o path
          c2 == path
          c3 == << "model" >> \o path
          c4 == << "assets" >> \o path
          c5 == IF path[1] = "." THEN Tail(path) ELSE path
          entries == DOMAIN asmFiles
      IN /\ key = IF c1 \in entries THEN c1
                  ELSE IF c2 \in entries THEN c2
                  ELSE IF c3 \in entries THEN c3
                  ELSE IF c4 \in entries THEN c4
                  ELSE c5
         /\ key \in entries
         /\ asmBuffers[g][i] # Null => asmBuffers[g][i] = << asmFiles[key] >>

\* a finished assembly of an archive in which two candidates of the first
\* path are entries, one of them under the descriptor's directory
C11_Witness ==
  /\ asmPc = "done"
  /\ asmModelDir # << >>
  /\ LET path == asmManifest[1][1]
     IN /\ asmModelDir \o path \in DOMAIN asmFiles
        /\ (path \in DOMAIN asmFiles \/ << "model" >> \o path \in DOMAIN asmFiles)
        /\ asmResolved[1][1] = << asmModelDir \o path >>

\* C12: when none of the five candidates of a weight path is an entry of
\* the archive, the assembly fails with an error, and that error names all
\* five candidates that were tried.
C12_ErrorListsCandidates ==
  (asmPc = "failed" /\ asmConsole # Null) =>
    /\ asmError # Null
    /\ \A k \in 1..Len(asmConsole[1]) : asmConsole[1][k] \in asmError[1].names

(***************************************************************************)
(* Frame buffer: processHandLandmarks                                      *)
(***************************************************************************)
Min(a, b) == IF a < b THEN a ELSE b
Max(a, b) == IF a > b THEN a ELSE b

PushFrame_KeepOldest(buf, frame) ==
  IF Len(buf) >= FRAME_BUFFER_SIZE THEN buf ELSE Append(buf, frame)

\* bufferRef.current.push(frame); if (length > FRAME_BUFFER_SIZE) shift()
PushFrame(buf, frame) ==
  LET pushed == Append(buf, frame)
  IN  IF Len(pushed) > FRAME_BUFFER_SIZE THEN Tail(pushed) ELSE pushed

IsFull_OffByOne(buf) == Len(buf) >= FRAME_BUFFER_SIZE - 1

\* const isFull = bufferRef.current.length === FRAME_BUFFER_SIZE
IsFull(buf) == Len(buf) = FRAME_BUFFER_SIZE

(***************************************************************************)
(* Predictor: runPrediction                                                *)
(***************************************************************************)
\* model.mockModel: no model object of the hook carries this property
\* (createMockModel never sets it).
MockModelFlag(m) == FALSE

PredictGuards_ModelOnly(m, full) == m # "none"

\* the three early returns of runPrediction: !model, !isBufferFull, no predict
PredictGuards(m, full) == m # "none" /\ full /\ HasPredict(m)

Throttled_Never(currentTime, last) == currentTime - last < 0

\* if (currentTime - lastPredictionTimeRef.current < 200) return null
Throttled(currentTime, last) == currentTime - last < THROTTLE_MS

\* the loop over predictionArray: first strictly greater entry wins
RECURSIVE ArgMaxFrom(_, _, _, _)
ArgMaxFrom(arr, i, maxProb, maxIndex) ==
  IF i > Len(arr) THEN << maxIndex, maxProb >>
  ELSE IF arr[i] > maxProb THEN ArgMaxFrom(arr, i + 1, arr[i], i)
       ELSE ArgMaxFrom(arr, i + 1, maxProb, maxIndex)

\* [classLabels[safeIndex], maxProb], or null for an empty prediction array
PredictionResult(arr) ==
  IF Len(arr) = 0 THEN Null
  ELSE LET am == ArgMaxFrom(arr, 1, 0, 1)
           safeIndex == Min(am[1], Len(classLabels))
       IN  << [label |-> classLabels[safeIndex], confidence |-> am[2]] >>

PassesGate_Strict(confidence) == confidence > CONFIDENCE_THRESHOLD

\* if (predictedConfidence >= CONFIDENCE_THRESHOLD)
PassesGate(confidence) == confidence >= CONFIDENCE_THRESHOLD

\* values performance.now() can return: never less than the last reading
ClockReadings == { t \in { now, now + TickMs, now + 2 * TickMs } : t <= MaxTime }

\* The synchronous part of runPrediction, up to the await (lines 821-912).
\* buf is bufferRef.current at the time of the call.
RunPredictionSync(buf) ==
  IF ~PredictGuards(model, isBufferFull)
  THEN /\ predictRet' = Null
       /\ UNCHANGED << now, lastPredictionTimeRef, pending, prediction >>
  ELSE \E currentTime \in ClockReadings, shouldChangeRandomly \in BOOLEAN,
          throws \in BOOLEAN :
       /\ now' = currentTime
       /\ IF Throttled(currentTime, lastPredictionTimeRef)
          THEN /\ predictRet' = Null
               /\ UNCHANGED << lastPredictionTimeRef, pending, prediction >>
          ELSE /\ lastPredictionTimeRef' = currentTime
               /\ IF (USE_MOCK_MODEL \/ MockModelFlag(model)) /\ shouldChangeRandomly
                  THEN \E i \in 1..Len(classLabels), c \in {70, 98} :
                       /\ prediction' = << [label |-> classLabels[i],
                                            confidence |-> c, isMock |-> TRUE] >>
                       /\ predictRet' = prediction'
                       /\ UNCHANGED pending
                  ELSE IF Len(buf) # FRAME_BUFFER_SIZE \/ throws
                  THEN \* buffer size mismatch, or model.predict threw inside tidy
                       /\ predictRet' = Null
                       /\ UNCHANGED << pending, prediction >>
                  ELSE \* predictions.data() is awaited
                       /\ pending' = pending + 1
                       /\ UNCHANGED << predictRet, prediction >>

\* The hook's runPrediction called on its own.
RunPredictionCall ==
  /\ pending < MaxPending
  /\ calls' = {"runPrediction"}
  /\ RunPredictionSync(bufferRef)
  /\ UNCHANGED << asmVars, loadVars, utilVars, hookVars, isBufferFull, bufferRef, noHandsFrameCount,
                  nextFrame, ingested, ingestRet, lastArray, runStartedFull >>

\* predictions.data() resolves; the continuation of runPrediction after the
\* await (lines 887-932).
PredictionResolved ==
  /\ pending > 0
  /\ \E arr \in PredictionArrays :
       LET res == PredictionResult(arr)
       IN  /\ lastArray' = << arr >>
           /\ IF res # Null /\ PassesGate(res[1].confidence)
              THEN /\ prediction' = << [label |-> res[1].label,
                                        confidence |-> res[1].confidence,
                                        isMock |-> USE_MOCK_MODEL] >>
                   /\ predictRet' = prediction'
              ELSE /\ predictRet' = Null
                   /\ UNCHANGED prediction
  /\ pending' = pending - 1
  /\ calls' = {"predictionResolved"}
  /\ UNCHANGED << asmVars, loadVars, utilVars, hookVars, isBufferFull, bufferRef, lastPredictionTimeRef,
                  noHandsFrameCount, now, nextFrame, ingested, ingestRet,
                  runStartedFull >>

\* predictions.data() rejects: caught by the outer catch, which returns null.
PredictionRejected ==
  /\ pending > 0
  /\ pending' = pending - 1
  /\ predictRet' = Null
  /\ calls' = {"predictionRejected"}
  /\ UNCHANGED << asmVars, loadVars, utilVars, hookVars, prediction, isBufferFull, bufferRef,
                  lastPredictionTimeRef, noHandsFrameCount, now, nextFrame,
                  ingested, ingestRet, lastArray, runStartedFull >>

\* resetBuffer, called on its own.
ResetBufferCall ==
  /\ bufferRef' = << >>
  /\ isBufferFull' = FALSE
  /\ prediction' = Null
  /\ ingested' = << >>
  /\ calls' = {"resetBuffer"}
  /\ UNCHANGED << asmVars, loadVars, utilVars, hookVars, lastPredictionTimeRef, noHandsFrameCount, now,
                  pending, nextFrame, ingestRet, predictRet, lastArray,
                  runStartedFull >>

(***************************************************************************)
(* Camera screen: processVideoFrame                                        *)
(***************************************************************************)
ResetDue_AtLeast(newCount) == newCount >= NO_HANDS_RESET_FRAMES

\* if (newCount > 30) resetBuffer()
ResetDue(newCount) == newCount > NO_HANDS_RESET_FRAMES

\* A frame in which the hand tracker reports at least one hand.
ProcessVideoFrameHands ==
  /\ nextFrame <= MaxFrames
  /\ pending < MaxPending
  /\ noHandsFrameCount' = 0
  /\ runStartedFull' = FALSE
  /\ LET buf == PushFrame(bufferRef, nextFrame)
     IN  /\ bufferRef' = buf
         /\ isBufferFull' = IsFull(buf)
         /\ ingestRet' = IsFull(buf)
         /\ ingested' = Append(ingested, nextFrame)
         /\ nextFrame' = nextFrame + 1
         /\ IF isBufferFull
            THEN /\ calls' = {"processHandLandmarks", "runPrediction"}
                 /\ RunPredictionSync(buf)
            ELSE /\ calls' = {"processHandLandmarks"}
                 /\ UNCHANGED << now, lastPredictionTimeRef, pending,
                                 prediction, predictRet >>
  /\ UNCHANGED << asmVars, loadVars, utilVars, hookVars, lastArray >>

\* A frame in which no hand is detected.
ProcessVideoFrameNoHands ==
  /\ noHandsFrameCount < MaxNoHands
  /\ LET newCount == noHandsFrameCount + 1
     IN  /\ noHandsFrameCount' = newCount
         /\ runStartedFull' = IF noHandsFrameCount = 0 THEN isBufferFull
                              ELSE runStartedFull
         /\ IF ResetDue(newCount)
            THEN /\ bufferRef' = << >>
                 /\ isBufferFull' = FALSE
                 /\ prediction' = Null
                 /\ ingested' = << >>
                 /\ calls' = {"resetBuffer"}
            ELSE /\ calls' = {}
                 /\ UNCHANGED << bufferRef, isBufferFull, prediction, ingested >>
  /\ UNCHANGED << asmVars, loadVars, utilVars, hookVars, lastPredictionTimeRef, now, pending, nextFrame,
                  ingestRet, predictRet, lastArray >>

\* The hook as the camera screen sees it once loadModel has settled (or
\* while it is still running: model is null until setModel).
\* a mounted hook whose acquisition has not started or has ended, before the
\* first frame
HookSettled ==
  /\ model \in {"none", "real", "mock"}
  /\ isLoading = (model = "none")
  /\ error = IF model = "mock" THEN << "mock" >> ELSE Null
  /\ frameIdle
  /\ modelLoadingStage = IF model = "none" THEN "initializing" ELSE "ready"
  /\ downloadProgress = 0
  /\ extractionProgress = 0
  /\ zipCacheRef = Null
  /\ pc = IF model = "none" THEN "start" ELSE "done"
  /\ loadedModel = model
  /\ modelLoadSuccess = (model = "real")
  /\ modelExists = FALSE
  /\ weightsExist = FALSE
  /\ zipContents = Null
  /\ zipData = Null
  /\ retries = 0
  /\ session = Null
  /\ idbCache = "none"
  /\ lsCache = "none"
  /\ attempts = << >>
  /\ failedSrc = {}
  /\ unavailable = {}
  /\ zipSource = "none"
  /\ thrown = FALSE
  /\ mockFailed = FALSE
  /\ stuck = "none"
  /\ loadObsIdle
  /\ asmIdle

InitFrame ==
  /\ HookSettled
  /\ utilIdle

NextFrame ==
  \/ ProcessVideoFrameHands
  \/ ProcessVideoFrameNoHands
  \/ RunPredictionCall
  \/ PredictionResolved
  \/ PredictionRejected
  \/ ResetBufferCall

SpecFrame == InitFrame /\ [][NextFrame]_vars

(***************************************************************************)
(* Properties of the frame buffer and the predictor (SpecFrame)            *)
(***************************************************************************)
LastN(s, n) == SubSeq(s, Max(1, Len(s) - n + 1), Len(s))

SetMax(S) == CHOOSE m \in S : \A x \in S : x <= m

\* largest entry of a prediction array (0 when none is positive)
MaxOf(arr) == SetMax({ arr[i] : i \in 1..Len(arr) } \cup {0})

\* C4: the buffer never holds more than FRAME_BUFFER_SIZE frames, and it is
\* always the last FRAME_BUFFER_SIZE frames ingested since it was emptied, in
\* the order they were ingested.
C4_FifoInvariant ==
  /\ Len(bufferRef) <= FRAME_BUFFER_SIZE
  /\ bufferRef = LastN(ingested, FRAME_BUFFER_SIZE)

C4_Witness ==
  /\ Len(ingested) > FRAME_BUFFER_SIZE + 1
  /\ Len(bufferRef) = FRAME_BUFFER_SIZE
  /\ Head(bufferRef) = Len(ingested) - FRAME_BUFFER_SIZE + 1

\* C5: processHandLandmarks returns true exactly when the buffer holds
\* FRAME_BUFFER_SIZE frames after the call, and isBufferFull is set to the
\* value returned.
C5_IngestReturnsFull ==
  "processHandLandmarks" \in calls =>
     /\ ingestRet = (Len(bufferRef) = FRAME_BUFFER_SIZE)
     /\ isBufferFull = ingestRet

C5_Witness ==
  /\ "processHandLandmarks" \in calls
  /\ ingestRet
  /\ Len(ingested) = FRAME_BUFFER_SIZE

\* C6: a runPrediction call that passes the guards less than THROTTLE_MS after
\* the last call that passed the throttle resolves to null, starts no
\* inference and changes neither the prediction nor the throttle timestamp;
\* an inference is only ever started THROTTLE_MS or more after the previous
\* call that passed the throttle.
C6_ThrottleWindow ==
  [][ /\ ( /\ "runPrediction" \in calls'
           /\ model # "none"
           /\ isBufferFull
           /\ now' - lastPredictionTimeRef < THROTTLE_MS )
         => /\ predictRet' = Null
            /\ pending' = pending
            /\ prediction' = prediction
            /\ lastPredictionTimeRef' = lastPredictionTimeRef
      /\ pending' > pending => now' - lastPredictionTimeRef >= THROTTLE_MS
    ]_vars

\* a call was throttled while an earlier call's inference is still in flight
C6_Witness ==
  /\ "runPrediction" \in calls
  /\ model # "none"
  /\ isBufferFull
  /\ pending > 0
  /\ now > lastPredictionTimeRef
  /\ now - lastPredictionTimeRef < THROTTLE_MS

\* C7: a resolved inference stores and returns a prediction exactly when its
\* largest probability is at least CONFIDENCE_THRESHOLD; below the threshold
\* it returns null and the stored prediction stays as it was.
C7_ConfidenceGate ==
  [][ "predictionResolved" \in calls' =>
        LET arr == lastArray'[1]
        IN  IF Len(arr) > 0 /\ MaxOf(arr) >= CONFIDENCE_THRESHOLD
            THEN /\ prediction' # Null
                 /\ prediction'[1].confidence = MaxOf(arr)
                 /\ predictRet' = prediction'
            ELSE /\ predictRet' = Null
                 /\ prediction' = prediction
    ]_vars

\* a 0.69 result arrived while a 0.70 prediction was shown, which stays
C7_Witness ==
  /\ "predictionResolved" \in calls
  /\ lastArray = << <<69, 30>> >>
  /\ predictRet = Null
  /\ prediction # Null
  /\ prediction[1].confidence = CONFIDENCE_THRESHOLD

C9_ResetAfter30NoHandFrames ==
  (noHandsFrameCount = NO_HANDS_RESET_FRAMES /\ runStartedFull) =>
     /\ Len(bufferRef) = 0
     /\ ~isBufferFull
     /\ prediction = Null

\* C26: at most one inference is in flight: no runPrediction call starts
\* an inference while the result of an earlier one has not resolved.
C26_SingleInferenceInFlight == pending <= 1

\* C27: a non-null prediction is only exposed while the buffer holds
\* FRAME_BUFFER_SIZE frames: after resetBuffer() the prediction stays null
\* until the buffer has been refilled, whatever was in flight at the reset.
C27_NoPredictionFromDiscardedFrames ==
  prediction # Null => Len(bufferRef) = FRAME_BUFFER_SIZE

(***************************************************************************)
(* Frame vector: processHandLandmarks, lines 779-814                       *)
(*                                                                         *)
(* A hand of the tracker's result is known by the number of landmarks it   *)
(* carries; coordinate c (0 = x, 1 = y, 2 = z) of landmark l of hand h is  *)
(* the non-zero number Coord(h, l, c).  A JavaScript array is a sequence   *)
(* whose element i + 1 is the array's slot i; a slot never written is      *)
(* "empty".  In SpecLandmarks bufferRef holds the frame vectors            *)
(* themselves.                                                             *)
(***************************************************************************)
\* new Array(126)
FRAME_VALUES == 126
\* handIndex * 63
HAND_STRIDE == 63
\* landmarkIndex * 3
LANDMARK_STRIDE == 3
\* if (handIndex >= 2) return
HAND_CAP == 2

MaxHands == 3
MaxLmFrames == 2

\* landmark counts a hand of the result can carry: none, the tracker's 21,
\* and one more than the frame vector has room for
LandmarkCounts == { 0, 21, 22 }

HandInputs ==
  UNION { [1..n -> LandmarkCounts] : n \in 0..MaxHands }

Coord(h, l, c) == 1000 * (h + 1) + 10 * l + c + 1

\* the (handIndex, landmarkIndex) pairs the two forEach loops visit without
\* returning early: every landmark the hand carries, for the hands below
\* the cap (lines 787-791)
Visited(hands) ==
  { << h, l >> \in (0..(HAND_CAP - 1)) \X (0..(SetMax(LandmarkCounts) - 1)) :
      h < Len(hands) /\ l < hands[h + 1] }

\* const baseIndex = handIndex * 63 + landmarkIndex * 3
BaseIndex(h, l) == h * HAND_STRIDE + l * LANDMARK_STRIDE

\* the visits that assign slot i (lines 796-798)
Writers(hands, i) ==
  { w \in Visited(hands) : i \in BaseIndex(w[1], w[2])..(BaseIndex(w[1], w[2]) + 2) }

\* the array's length after the loops: an assignment at or past the length
\* extends the array
FrameLength(hands) ==
  Max(FRAME_VALUES,
      SetMax({ 0 } \cup { BaseIndex(w[1], w[2]) + 3 : w \in Visited(hands) }))

\* handLandmarksArray as it is pushed: a slot holds the value of the last
\* visit that assigned it (hands in index order, then landmarks in index
\* order), the fill's 0 when none did, and nothing past the fill
FrameVector(hands) ==
  [ k \in 1..FrameLength(hands) |->
      LET ws == Writers(hands, k - 1)
      IN  IF ws = {}
          THEN IF k <= FRAME_VALUES THEN 0 ELSE "empty"
          ELSE LET w == CHOOSE x \in ws : \A y \in ws : y[1] <= x[1]
               IN  Coord(w[1], w[2], (k - 1) - BaseIndex(w[1], w[2])) ]

\* processHandLandmarks(landmarkerResult)
ProcessHandLandmarks ==
  /\ Len(bufferRef) < MaxLmFrames
  /\ \E hands \in HandInputs :
       LET buf == PushFrame(bufferRef, FrameVector(hands))
       IN  /\ lmHands' = hands
           /\ bufferRef' = buf
           /\ isBufferFull' = IsFull(buf)
           /\ ingestRet' = IsFull(buf)
  /\ calls' = { "processHandLandmarks" }
  /\ UNCHANGED << hookVars, loadVars, asmVars, lifeVars, purgeVars, clearVars,
                  prediction, lastPredictionTimeRef, noHandsFrameCount, now,
                  pending, nextFrame, ingested, predictRet, lastArray,
                  runStartedFull >>

\* a hook whose model is loaded, before the first frame
InitLandmarks ==
  /\ InitFrame
  /\ model = "real"

NextLandmarks == ProcessHandLandmarks

SpecLandmarks == InitLandmarks /\ [][NextLandmarks]_vars

Versions == { "sign-language-model-v4", "sign-language-model-v5",
              "sign-language-model-v6" }

\* the hook while a maintenance operation runs: loaded, no frame yet
hookAtRest ==
  /\ HookSettled
  /\ model = "real"
  /\ lifeIdle

\* the orders in which localStorage.key(i) can enumerate a set of keys
Orderings(S) ==
  { q \in [1..Cardinality(S) -> S] :
      \A i, j \in 1..Cardinality(S) : q[i] = q[j] => i = j }

RECURSIVE FilterNot(_, _)
\* allVersions.filter(key => key !== currentKey)
FilterNot(q, key) ==
  IF q = << >> THEN << >>
  ELSE IF Head(q) = key THEN FilterNot(Tail(q), key)
  ELSE << Head(q) >> \o FilterNot(Tail(q), key)

\* getAllCacheVersions (lines 56-72): the keys of the localStorage items
\* whose name contains the prefix and '-metadata', with '-metadata' removed
Discovered(meta, idb, ls) == meta

\* clearOldCacheVersions up to its first removal: the import, the listing
\* and the filter (lines 95-104)
PurgeStart ==
  /\ purgePc = "start"
  /\ \E imported \in BOOLEAN, listed \in BOOLEAN :
       IF ~imported
       THEN /\ purgePc' = "aborted"
            /\ UNCHANGED << purgeQueue, purgeFailed >>
       ELSE /\ \E all \in Orderings(IF listed
                                    THEN Discovered(lsMetadata, idbModels,
                                                    lsModels)
                                    ELSE {}) :
                 /\ purgeQueue' = FilterNot(all, purgeCurrent)
                 /\ purgePc' = IF FilterNot(all, purgeCurrent) = << >>
                               THEN "done" ELSE "idb"
            /\ purgeFailed' = IF listed THEN purgeFailed
                              ELSE purgeFailed \cup { << "list", "localStorage" >> }
  /\ UNCHANGED << hookVars, frameVars, loadVars, asmVars, lifeVars, lmHands,
                  clearVars,
                  lsMetadata, idbModels, lsModels, purgeCurrent >>

\* await tf.io.removeModel(`indexeddb://${key}`) settles (lines 107-113);
\* it rejects when the store holds no such model or cannot be opened
PurgeIndexedDB ==
  /\ purgePc = "idb"
  /\ LET key == Head(purgeQueue)
     IN  \E ok \in BOOLEAN :
           IF ok /\ key \in idbModels
           THEN /\ idbModels' = idbModels \ { key }
                /\ UNCHANGED purgeFailed
           ELSE /\ purgeFailed' = purgeFailed \cup { << "indexeddb", key >> }
                /\ UNCHANGED idbModels
  /\ purgePc' = "ls"
  /\ UNCHANGED << hookVars, frameVars, loadVars, asmVars, lifeVars, lmHands,
                  clearVars,
                  lsMetadata, lsModels, purgeCurrent, purgeQueue >>

\* await tf.io.removeModel(`localstorage://${key}`) settles, then the
\* metadata item is removed and the loop moves on (lines 115-128)
PurgeLocalStorage ==
  /\ purgePc = "ls"
  /\ LET key == Head(purgeQueue)
     IN  \E ok \in BOOLEAN, metaOk \in BOOLEAN :
           /\ lsModels' = IF ok THEN lsModels \ { key } ELSE lsModels
           /\ lsMetadata' = IF metaOk THEN lsMetadata \ { key } ELSE lsMetadata
           /\ purgeFailed' =
                purgeFailed
                  \cup (IF ok /\ key \in lsModels THEN {}
                        ELSE { << "localstorage", key >> })
                  \cup (IF metaOk THEN {} ELSE { << "metadata", key >> })
  /\ purgeQueue' = Tail(purgeQueue)
  /\ purgePc' = IF Tail(purgeQueue) = << >> THEN "done" ELSE "idb"
  /\ UNCHANGED << hookVars, frameVars, loadVars, asmVars, lifeVars, lmHands,
                  clearVars,
                  idbModels, purgeCurrent >>

\* the stores as earlier visits left them, and the call's argument
InitPurge ==
  /\ hookAtRest
  /\ clearIdle
  /\ lsMetadata \in SUBSET Versions
  /\ idbModels \in SUBSET Versions
  /\ lsModels \in SUBSET Versions
  /\ purgeCurrent \in Versions
  /\ purgeQueue = << >>
  /\ purgeFailed = {}
  /\ purgePc = "start"

NextPurge ==
  \/ PurgeStart
  \/ PurgeIndexedDB
  \/ PurgeLocalStorage

SpecPurge == InitPurge /\ [][NextPurge]_vars

\* C25: when clearOldCacheVersions(currentKey) has run through, every
\* version other than currentKey has lost its IndexedDB model, its
\* localStorage model and its metadata, except the removals that threw; the
\* entries of currentKey are never touched; a removal that threw is
\* followed by the remaining removals.
C25_PurgeRemovesOldVersions ==
  /\ []((purgePc = "done" /\ << "list", "localStorage" >> \notin purgeFailed) =>
          \A v \in Versions \ { purgeCurrent } :
            /\ v \in idbModels => << "indexeddb", v >> \in purgeFailed
            /\ v \in lsModels => << "localstorage", v >> \in purgeFailed
            /\ v \in lsMetadata => << "metadata", v >> \in purgeFailed)
  /\ [][/\ (purgeCurrent \in idbModels') = (purgeCurrent \in idbModels)
        /\ (purgeCurrent \in lsModels') = (purgeCurrent \in lsModels)
        /\ (purgeCurrent \in lsMetadata') = (purgeCurrent \in lsMetadata)]_vars

(***************************************************************************)
(* Storage manager: src/src/components/ModelStorageManager.js              *)
(*                                                                         *)
(* localStorage is the sequence of its keys in the order key(i) reports    *)
(* them; removeItem(key) closes the gap, so the keys behind the removed    *)
(* one move down by one index.                                             *)
(***************************************************************************)
\* const MODEL_CACHE_KEY = "sign-language-model-v6" (line 97)
MODEL_CACHE_KEY == "sign-language-model-v6"

\* keys a page of the application can find in localStorage
StorageKeys ==
  { "tensorflowjs_models/sign-language-model-v6/info",
    "tensorflowjs_models/sign-language-model-v6/weight_data",
    "sign-language-model-v6-metadata",
    "theme",
    "i18nextLng" }

\* key.includes('tensorflowjs')
IncludesTensorflowjs(key) ==
  key \in { "tensorflowjs_models/sign-language-model-v6/info",
            "tensorflowjs_models/sign-language-model-v6/weight_data" }

\* key.includes(MODEL_CACHE_KEY)
IncludesCacheKey(key) ==
  key \in { "tensorflowjs_models/sign-language-model-v6/info",
            "tensorflowjs_models/sign-language-model-v6/weight_data",
            "sign-language-model-v6-metadata" }

\* the condition of the removal (line 292)
ModelRelated(key) == IncludesTensorflowjs(key) \/ IncludesCacheKey(key)

\* localStorage.removeItem(localStorage.key(i))
RemoveAt(items, i) ==
  SubSeq(items, 1, i) \o SubSeq(items, i + 2, Len(items))

RECURSIVE ClearLoop(_, _)
\* for (let i = 0; i < localStorage.length; i++) { ... } (lines 290-295):
\* the index advances after a removal too
ClearLoop(items, i) ==
  IF i >= Len(items) THEN items
  ELSE IF ModelRelated(items[i + 1])
  THEN ClearLoop(RemoveAt(items, i), i + 1)
  ELSE ClearLoop(items, i + 1)

\* clearLocalStorage (lines 285-303); localStorage throwing on access is
\* the catch branch
ClearLocalStorage ==
  /\ clearMessage = Null
  /\ \E accessible \in BOOLEAN :
       IF accessible
       THEN /\ lsItems' = ClearLoop(lsItems, 0)
            /\ clearMessage' = << "localStorage model cache has been cleared" >>
       ELSE /\ clearMessage' = << "Error clearing localStorage" >>
            /\ UNCHANGED lsItems
  /\ UNCHANGED << hookVars, frameVars, loadVars, asmVars, lifeVars, lmHands,
                  purgeVars >>

\* localStorage holds any of the keys, in any order, each at most once
InitClear ==
  /\ hookAtRest
  /\ purgeIdle
  /\ lsItems \in UNION { Orderings(S) : S \in SUBSET StorageKeys }
  /\ clearMessage = Null

NextClear == ClearLocalStorage

SpecClear == InitClear /\ [][NextClear]_vars

\* C30: once clearLocalStorage has reported success, no key containing
\* 'tensorflowjs' or the model cache key is left in localStorage.
C30_NoModelKeyLeft ==
  clearMessage = << "localStorage model cache has been cleared" >> =>
    \A k \in 1..Len(lsItems) : ~ModelRelated(lsItems[k])

====
